---- MODULE Spec2Model ----
(***************************************************************************)
(* Model of src/project.py: a capacitated vehicle routing solver behind a  *)
(* four-field form.  parse_input validates the raw fields,                 *)
(* create_data_model builds the routing data, solve_routing_problem runs   *)
(* the routing library with the PATH_CHEAPEST_ARC first-solution strategy  *)
(* under a capacity dimension, print_solution decodes the assignment into  *)
(* the report, and solve_and_display shows the report or an error dialog.  *)
(*                                                                         *)
(* Nodes are 0 (depot) and 1..n (customers); vehicles are 0..n-1.  A text  *)
(* field is held as the list of its separated tokens (str.split), a token  *)
(* being the decimal text of an integer or some other text.  Python lists  *)
(* are sequences, so element k of a list is at position k+1.               *)
(***************************************************************************)
EXTENDS Integers, Sequences, FiniteSets, TLC

(* ------------------------------ bounds -------------------------------- *)
MaxCustomers == 2
MaxDist == 2
MaxDemand == 2
MaxCap == 2

VARIABLES fields, pc, data, routes, vehicle, result_text,
          text_value, result_open, page_dialog, error_dialog

vars == <<fields, pc, data, routes, vehicle, result_text,
          text_value, result_open, page_dialog, error_dialog>>

(* ------------------------- text and tokens ---------------------------- *)
\* The integers a token of the model can spell.
TokenInts == (0 - 1)..(MaxDist + MaxDemand + MaxCap + MaxCustomers + 11)

Tok(i) == ToString(i)

IsIntToken(t) == \E i \in TokenInts : ToString(i) = t

int(t) == CHOOSE i \in TokenInts : ToString(i) = t

Range(s) == {s[k] : k \in 1..Len(s)}

RECURSIVE SumSeq(_)
SumSeq(s) == IF s = <<>> THEN 0 ELSE s[1] + SumSeq(Tail(s))

(* ---------------------------- parse_input ----------------------------- *)
MsgLiteral == "Invalid input: invalid literal for int() with base 10"
MsgLength == "Invalid input: The length of customer demands must be equal to the number of customers."
MsgSquare == "Invalid input: The edges matrix must be a square matrix of size (num_customers + 1) x (num_customers + 1)."
MsgSymmetric == "Invalid input: The edges matrix must be symmetric."
MsgDiagonal == "Invalid input: The diagonal elements of the edges matrix must be zero."
MsgNonZero == "Invalid input: The non-diagonal elements of the edges matrix must be non-zero."

Raise(msg) == [ok |-> FALSE, msg |-> msg]

\* list(map(int, tokens))
MapInt(toks) == [k \in 1..Len(toks) |-> int(toks[k])]

AllInt(toks) == \A k \in 1..Len(toks) : IsIntToken(toks[k])

\* The checks of the double loop at one (i, j), positions being 1-based.
\* (SymmetryUnchecked: the symmetry test left out.)
SymmetryUnchecked(e, i, j) == TRUE

SymmetricAt(e, i, j) == e[i][j] = e[j][i]
DiagonalAt(e, i, j) == (i = j) => (e[i][j] = 0)
OffDiagonalAt(e, i, j) == (i # j) => (e[i][j] # 0)

CellOk(e, i, j) ==
    SymmetricAt(e, i, j) /\ DiagonalAt(e, i, j) /\ OffDiagonalAt(e, i, j)

CellMsg(e, i, j) ==
    IF ~SymmetricAt(e, i, j) THEN MsgSymmetric
    ELSE IF ~DiagonalAt(e, i, j) THEN MsgDiagonal
    ELSE MsgNonZero

BadCells(e) ==
    {p \in (1..Len(e)) \X (1..Len(e)) : ~CellOk(e, p[1], p[2])}

\* The first cell the row-major double loop rejects.
FirstBadCell(e) ==
    CHOOSE p \in BadCells(e) :
        \A q \in BadCells(e) :
            (p[1] < q[1]) \/ (p[1] = q[1] /\ p[2] <= q[2])

parse_input(f) ==
    IF ~IsIntToken(f.num_customers) THEN Raise(MsgLiteral)
    ELSE IF ~IsIntToken(f.vehicle_capacity) THEN Raise(MsgLiteral)
    ELSE IF ~AllInt(f.customer_demands) THEN Raise(MsgLiteral)
    ELSE IF Len(f.customer_demands) # int(f.num_customers) THEN Raise(MsgLength)
    ELSE IF \E r \in 1..Len(f.edges) : ~AllInt(f.edges[r]) THEN Raise(MsgLiteral)
    ELSE LET num_customers == int(f.num_customers)
             edges == [r \in 1..Len(f.edges) |-> MapInt(f.edges[r])]
         IN  IF Len(edges) # num_customers + 1 THEN Raise(MsgSquare)
             ELSE IF \E r \in 1..Len(edges) : Len(edges[r]) # Len(edges)
                  THEN Raise(MsgSquare)
             ELSE IF BadCells(edges) # {}
                  THEN LET p == FirstBadCell(edges)
                       IN  Raise(CellMsg(edges, p[1], p[2]))
             ELSE [ok |-> TRUE,
                   num_customers |-> num_customers,
                   vehicle_capacity |-> int(f.vehicle_capacity),
                   customer_demands |-> MapInt(f.customer_demands),
                   edges |-> edges]

(* -------------------------- create_data_model ------------------------- *)
\* (SingleVehicleModel: a fleet of one vehicle instead of one per customer.)
SingleVehicleModel(num_customers, vehicle_capacity, customer_demands, edges) ==
    [distance_matrix |-> edges,
     demands |-> <<0>> \o customer_demands,
     vehicle_capacities |-> [v \in 0..0 |-> vehicle_capacity],
     num_vehicles |-> 1,
     depot |-> 0]

create_data_model(num_customers, vehicle_capacity, customer_demands, edges) ==
    [distance_matrix |-> edges,
     demands |-> <<0>> \o customer_demands,
     vehicle_capacities |-> [v \in 0..(num_customers - 1) |-> vehicle_capacity],
     num_vehicles |-> num_customers,
     depot |-> 0]

NoData == [num_vehicles |-> 0]

\* distance_callback and demand_callback on nodes.
distance_callback(d, from_node, to_node) ==
    d.distance_matrix[from_node + 1][to_node + 1]

demand_callback(d, from_node) == d.demands[from_node + 1]

Customers(d) == 1..(Len(d.distance_matrix) - 1)
Vehicles(d) == 0..(d.num_vehicles - 1)

(* ------------------- the capacity dimension (lines 135-146) ----------- *)
\* AddDimensionWithVehicleCapacity(demand, 0, capacities, True, 'Capacity'):
\* the cumul is 0 at the route start, grows by the demand of the node left,
\* has no slack, and ranges over 0..capacity at every node of the route.
\* (CapacityUnbounded: the dimension without its upper bound.)
CapacityUnbounded(d, v, load) == 0 <= load

CapacityOk(d, v, load) == (0 <= load) /\ (load <= d.vehicle_capacities[v])

Demands(d, chain) == [k \in 1..Len(chain) |-> demand_callback(d, chain[k])]

Load(d, chain) == SumSeq(Demands(d, chain))

ChainFeasible(d, v, chain) ==
    \A k \in 0..Len(chain) : CapacityOk(d, v, Load(d, SubSeq(chain, 1, k)))

(* ----------------------- assignments of the model --------------------- *)
\* Sequences without repetition over 1..n.
Chains(n) ==
    UNION {{s \in [1..k -> 1..n] : \A a, b \in 1..k : (a # b) => (s[a] # s[b])}
           : k \in 0..n}

\* (PartitionsMayDrop: nodes may be left out of every route.)
PartitionsMayDrop(m, n) ==
    {r \in [0..(m - 1) -> Chains(n)] :
        \A v, w \in 0..(m - 1) : (v # w) => (Range(r[v]) \cap Range(r[w]) = {})}

\* m vehicles, n customers: every node is visited by exactly one vehicle
\* (the model has no disjunction, so no node may be dropped).
Partitions(m, n) ==
    {r \in [0..(m - 1) -> Chains(n)] :
        /\ \A c \in 1..n : \E v \in 0..(m - 1) : c \in Range(r[v])
        /\ \A v, w \in 0..(m - 1) : (v # w) => (Range(r[v]) \cap Range(r[w]) = {})}

AllAssignments ==
    UNION {{<<m, n, r>> : r \in Partitions(m, n)}
           : m \in 1..MaxCustomers, n \in 1..MaxCustomers}

AssignmentsOf(d) ==
    {t[3] : t \in {u \in AllAssignments :
                      /\ u[1] = d.num_vehicles
                      /\ u[2] = Len(d.distance_matrix) - 1}}

\* The assignments the routing model admits: the capacity dimension holds
\* on every route.
Feasible(d) ==
    {r \in AssignmentsOf(d) :
        \A v \in Vehicles(d) : ChainFeasible(d, v, r[v])}

\* Arc cost of a closed route start -> chain -> end, and of an assignment.
RECURSIVE ChainCost(_, _, _)
ChainCost(d, from_node, chain) ==
    IF chain = <<>> THEN distance_callback(d, from_node, 0)
    ELSE distance_callback(d, from_node, chain[1])
         + ChainCost(d, chain[1], Tail(chain))

RECURSIVE CostUpTo(_, _, _)
CostUpTo(d, r, v) ==
    IF v < 0 THEN 0 ELSE ChainCost(d, 0, r[v]) + CostUpTo(d, r, v - 1)

Cost(d, r) == CostUpTo(d, r, d.num_vehicles - 1)

(* ------------- PATH_CHEAPEST_ARC (lines 148-153), one step ------------ *)
Visited(d, r) == UNION {Range(r[v]) : v \in Vehicles(d)}

Unvisited(d, r) == Customers(d) \ Visited(d, r)

LastNode(chain) == IF chain = <<>> THEN 0 ELSE chain[Len(chain)]

\* (CandidatesAnyLoad: every unvisited customer, whatever its demand.)
CandidatesAnyLoad(d, r, v) == Unvisited(d, r)

\* The customers the path of vehicle v can be extended to.
Candidates(d, r, v) ==
    {c \in Unvisited(d, r) :
        CapacityOk(d, v, Load(d, r[v]) + demand_callback(d, c))}

\* The cheapest arc out of the path's last node, lowest node first on a tie.
CheapestArc(d, r, v) ==
    LET from_node == LastNode(r[v])
        cand == Candidates(d, r, v)
    IN  CHOOSE c \in cand :
            \A c2 \in cand :
                \/ distance_callback(d, from_node, c) < distance_callback(d, from_node, c2)
                \/ /\ distance_callback(d, from_node, c) = distance_callback(d, from_node, c2)
                   /\ c <= c2

(* --------------------------- print_solution --------------------------- *)
NoSolutionText == "No solution found."

\* The while loop and the final depot entry: one (node, load, distance)
\* per node of the route, the arc into the first node being start -> start.
RECURSIVE Walk(_, _, _, _, _)
Walk(d, nodes, previous, route_load, route_distance) ==
    IF nodes = <<>> THEN <<>>
    ELSE LET node_index == nodes[1]
             load == route_load + demand_callback(d, node_index)
             distance == route_distance + distance_callback(d, previous, node_index)
         IN  <<[node |-> node_index, load |-> load, distance |-> distance]>>
             \o Walk(d, Tail(nodes), node_index, load, distance)

RouteOf(d, chain) == Walk(d, <<0>> \o chain \o <<0>>, 0, 0, 0)

\* (PlanOutputNoReturn: the route's figures taken before the return arc.)
PlanOutputNoReturn(trip_number, route) ==
    [trip |-> trip_number,
     stops |-> [i \in 1..Len(route) |->
                  IF i = 1 THEN [route[i] EXCEPT !.distance = 0] ELSE route[i]],
     distance |-> route[Len(route) - 1].distance,
     load |-> route[Len(route) - 1].load]

\* The text of one reported route: the first stop is printed Distance(0).
PlanOutput(trip_number, route) ==
    [trip |-> trip_number,
     stops |-> [i \in 1..Len(route) |->
                  IF i = 1 THEN [route[i] EXCEPT !.distance = 0] ELSE route[i]],
     distance |-> route[Len(route)].distance,
     load |-> route[Len(route)].load]

\* (ShownWithDepotOnly: the test of line 93 off by one.)
ShownWithDepotOnly(route) == Len(route) >= 2

\* Line 93: a route is printed when it has more than the two depot entries.
Shown(route) == Len(route) > 2

RECURSIVE PrintFrom(_, _, _, _, _, _, _)
PrintFrom(d, r, vehicle_id, trip_number, total_distance, total_load, trips) ==
    IF vehicle_id >= d.num_vehicles
    THEN [trips |-> trips,
          total_distance |-> total_distance,
          total_load |-> total_load]
    ELSE LET route == RouteOf(d, r[vehicle_id])
             shown == Shown(route)
         IN  PrintFrom(d, r, vehicle_id + 1,
                       IF shown THEN trip_number + 1 ELSE trip_number,
                       total_distance + route[Len(route)].distance,
                       total_load + route[Len(route)].load,
                       IF shown THEN Append(trips, PlanOutput(trip_number, route))
                       ELSE trips)

print_solution(d, r) == PrintFrom(d, r, 0, 1, 0, 0, <<>>)

(* ------------------------------ the page ------------------------------ *)
Plain(s) == [plain |-> s]

NoResult == Plain("")

NoDialog == [open |-> FALSE]

(* ------------------------ the inputs of the model --------------------- *)
\* Distances are the shortest and the longest one.
DistRange == {1, MaxDist}
DemandRange == (0 - 1)..MaxDemand
CapRange == 0..MaxCap

Pairs(n) == {p \in (0..n) \X (0..n) : p[1] < p[2]}

Lo(i, j) == IF i < j THEN i ELSE j
Hi(i, j) == IF i < j THEN j ELSE i

\* The text a user types for n customers, capacity cap, demands dem and the
\* symmetric matrix with zero diagonal whose upper triangle is up.
FieldsOf(n, cap, dem, up) ==
    [num_customers |-> Tok(n),
     vehicle_capacity |-> Tok(cap),
     customer_demands |-> [k \in 1..n |-> Tok(dem[k])],
     edges |-> [i \in 1..(n + 1) |-> [j \in 1..(n + 1) |->
                  IF i = j THEN Tok(0)
                  ELSE Tok(up[<<Lo(i, j) - 1, Hi(i, j) - 1>>])]]]

WellFormed(f) ==
    \E n \in 1..MaxCustomers, cap \in CapRange :
        \E dem \in [1..n -> DemandRange], up \in [Pairs(n) -> DistRange] :
            f = FieldsOf(n, cap, dem, up)

\* str.split never returns an empty list: an empty text is one empty token.
DropLast(toks) ==
    IF Len(toks) <= 1 THEN <<"">> ELSE SubSeq(toks, 1, Len(toks) - 1)

\* Ways of spoiling or altering a well-formed text.
Variants(f, n) ==
    {[f EXCEPT !.num_customers = "x"],
     [f EXCEPT !.num_customers = Tok(n + 1)],
     [f EXCEPT !.vehicle_capacity = ""],
     [f EXCEPT !.customer_demands[1] = "x"],
     [f EXCEPT !.customer_demands = DropLast(@)],
     [f EXCEPT !.customer_demands = Append(@, Tok(1))],
     [f EXCEPT !.edges[1][2] = "x"],
     [f EXCEPT !.edges = SubSeq(@, 1, n)],
     [f EXCEPT !.edges = Append(@, @[1])],
     [f EXCEPT !.edges[n + 1] = DropLast(@)]}
    \cup {[f EXCEPT !.edges[i][j] = Tok(x)] :
              i \in 1..(n + 1), j \in 1..(n + 1), x \in {0 - 1, 0, 2}}
    \cup {[f EXCEPT !.edges[p[1] + 1][p[2] + 1] = Tok(x),
                    !.edges[p[2] + 1][p[1] + 1] = Tok(x)] :
              p \in Pairs(n), x \in {0 - 1, 0}}

VariantInputs ==
    UNION {Variants(FieldsOf(n, MaxCap, [k \in 1..n |-> 1], [p \in Pairs(n) |-> 1]), n)
           : n \in 1..MaxCustomers}

(* ------------------------------ actions ------------------------------- *)
\* main (lines 164-225): the page as built, the result dialog attached.
PageBuilt ==
    /\ data = NoData
    /\ routes = <<>>
    /\ vehicle = 0
    /\ result_text = NoResult
    /\ text_value = NoResult
    /\ result_open = FALSE
    /\ page_dialog = "result"
    /\ error_dialog = NoDialog

\* One Solve request on a fresh page: the fields are filled and
\* solve_and_display has been called.
Init ==
    /\ WellFormed(fields) \/ fields \in VariantInputs
    /\ pc = "parse"
    /\ PageBuilt

\* solve_and_display, lines 194-197 and 208-219: parse_input, and the error
\* dialog when it raises.
ParseInput ==
    /\ pc = "parse"
    /\ LET p == parse_input(fields)
       IN  IF p.ok
           THEN /\ data' = create_data_model(p.num_customers, p.vehicle_capacity,
                                              p.customer_demands, p.edges)
                /\ routes' = [v \in Vehicles(data') |-> <<>>]
                /\ vehicle' = 0
                /\ pc' = "construct"
                /\ UNCHANGED <<page_dialog, error_dialog>>
           ELSE /\ error_dialog' = [content |-> p.msg, open |-> TRUE]
                /\ page_dialog' = "error"
                /\ pc' = "idle"
                /\ UNCHANGED <<data, routes, vehicle>>
    /\ UNCHANGED <<fields, result_text, text_value, result_open>>

\* (ExtendCheapestPair: the cheapest feasible arc over every vehicle's path
\* at once, lowest vehicle then lowest customer first on a tie.)
ExtendCheapestPair ==
    /\ pc = "construct"
    /\ LET pairs == {q \in Vehicles(data) \X Unvisited(data, routes) :
                        CapacityOk(data, q[1], Load(data, routes[q[1]])
                                               + demand_callback(data, q[2]))}
           arc(q) == distance_callback(data, LastNode(routes[q[1]]), q[2])
           less(q, o) == \/ arc(q) < arc(o)
                         \/ arc(q) = arc(o) /\ q[1] < o[1]
                         \/ arc(q) = arc(o) /\ q[1] = o[1] /\ q[2] <= o[2]
       IN  /\ pairs # {}
           /\ LET best == CHOOSE q \in pairs : \A o \in pairs : less(q, o)
              IN  routes' = [routes EXCEPT ![best[1]] = Append(@, best[2])]
    /\ UNCHANGED <<fields, pc, data, vehicle, result_text,
                   text_value, result_open, page_dialog, error_dialog>>

\* The first-solution strategy extends the path of the current vehicle by
\* its cheapest feasible arc.
ExtendPath ==
    /\ pc = "construct"
    /\ Candidates(data, routes, vehicle) # {}
    /\ routes' = [routes EXCEPT ![vehicle] = Append(@, CheapestArc(data, routes, vehicle))]
    /\ UNCHANGED <<fields, pc, data, vehicle, result_text,
                   text_value, result_open, page_dialog, error_dialog>>

\* No customer fits: the path is closed and the next vehicle's path begins.
ClosePath ==
    /\ pc = "construct"
    /\ Unvisited(data, routes) # {}
    /\ Candidates(data, routes, vehicle) = {}
    /\ vehicle + 1 < data.num_vehicles
    /\ vehicle' = vehicle + 1
    /\ UNCHANGED <<fields, pc, data, routes, result_text,
                   text_value, result_open, page_dialog, error_dialog>>

\* Every customer is on a path: all paths are closed, a solution is found.
FirstSolution ==
    /\ pc = "construct"
    /\ Unvisited(data, routes) = {}
    /\ pc' = "found"
    /\ UNCHANGED <<fields, data, routes, vehicle, result_text,
                   text_value, result_open, page_dialog, error_dialog>>

\* The last vehicle's path cannot take a remaining customer.  The library's
\* search then backtracks over the earlier arcs: it ends with some feasible
\* assignment when there is one and with no solution otherwise.
Backtrack ==
    /\ pc = "construct"
    /\ Unvisited(data, routes) # {}
    /\ Candidates(data, routes, vehicle) = {}
    /\ vehicle + 1 >= data.num_vehicles
    /\ IF Feasible(data) = {}
       THEN pc' = "none" /\ UNCHANGED routes
       ELSE pc' = "found" /\ routes' \in Feasible(data)
    /\ UNCHANGED <<fields, data, vehicle, result_text,
                   text_value, result_open, page_dialog, error_dialog>>

\* SolveWithParameters with the default search parameters (line 149) follows
\* the first solution by a local search that only accepts a strictly cheaper
\* feasible assignment.
LocalSearch ==
    /\ pc = "found"
    /\ \E r \in Feasible(data) :
          /\ Cost(data, r) < Cost(data, routes)
          /\ routes' = r
    /\ UNCHANGED <<fields, pc, data, vehicle, result_text,
                   text_value, result_open, page_dialog, error_dialog>>

\* solve_routing_problem, lines 156-161.
ReturnResult ==
    /\ pc \in {"found", "none"}
    /\ result_text' = IF pc = "found" THEN print_solution(data, routes)
                      ELSE Plain(NoSolutionText)
    /\ pc' = "display"
    /\ UNCHANGED <<fields, data, routes, vehicle,
                   text_value, result_open, page_dialog, error_dialog>>

\* solve_and_display, lines 203-205; the handler's locals end with it.
Display ==
    /\ pc = "display"
    /\ text_value' = result_text
    /\ result_open' = TRUE
    /\ result_text' = NoResult
    /\ data' = NoData
    /\ routes' = <<>>
    /\ vehicle' = 0
    /\ pc' = "idle"
    /\ UNCHANGED <<fields, page_dialog, error_dialog>>

Next ==
    \/ ParseInput
    \/ ExtendPath
    \/ ClosePath
    \/ FirstSolution
    \/ Backtrack
    \/ LocalSearch
    \/ ReturnResult
    \/ Display

Spec == Init /\ [][Next]_vars

(* ---------------------- sequences of clicks -------------------------- *)
\* The four text fields before anything is typed.
EmptyFields ==
    [num_customers |-> "",
     vehicle_capacity |-> "",
     customer_demands |-> <<"">>,
     edges |-> <<<<"">>>>]

Triangle(a, b, c) == (<<0, 1>> :> a) @@ (<<0, 2>> :> b) @@ (<<1, 2>> :> c)

\* The scenarios of the documentation and a few around them.
ExampleFields == FieldsOf(2, 10, <<3, 4>>, Triangle(1, 2, 3))

OverloadFields == FieldsOf(1, 10, <<11>>, (<<0, 1>> :> 1))

GuiInputs ==
    {EmptyFields,
     ExampleFields,
     OverloadFields,
     FieldsOf(2, 5, <<3, 4>>, Triangle(1, 2, 3)),
     FieldsOf(2, 10, <<3, 4>>, Triangle(1, 1, 3)),
     [ExampleFields EXCEPT !.edges[1][2] = Tok(2)],
     [ExampleFields EXCEPT !.customer_demands = <<Tok(3)>>]}

InitGui ==
    /\ fields = EmptyFields
    /\ pc = "idle"
    /\ PageBuilt

\* The user types into the fields between two clicks.
EditFields ==
    /\ pc = "idle"
    /\ fields' \in GuiInputs \ {fields}
    /\ UNCHANGED <<pc, data, routes, vehicle, result_text,
                   text_value, result_open, page_dialog, error_dialog>>

\* The Solve button (line 222): solve_and_display is called.
SolveClick ==
    /\ pc = "idle"
    /\ pc' = "parse"
    /\ UNCHANGED <<fields, data, routes, vehicle, result_text,
                   text_value, result_open, page_dialog, error_dialog>>

\* The Close button of the result dialog (line 187), when the page shows it.
CloseResult ==
    /\ pc = "idle"
    /\ page_dialog = "result"
    /\ result_open
    /\ result_open' = FALSE
    /\ UNCHANGED <<fields, pc, data, routes, vehicle, result_text,
                   text_value, page_dialog, error_dialog>>

\* The Close button of the error dialog (line 214), when the page shows it.
CloseError ==
    /\ pc = "idle"
    /\ page_dialog = "error"
    /\ error_dialog.open
    /\ error_dialog' = [error_dialog EXCEPT !.open = FALSE]
    /\ UNCHANGED <<fields, pc, data, routes, vehicle, result_text,
                   text_value, result_open, page_dialog>>

NextGui ==
    \/ ParseInput
    \/ ExtendPath
    \/ ClosePath
    \/ FirstSolution
    \/ Backtrack
    \/ LocalSearch
    \/ ReturnResult
    \/ Display
    \/ EditFields
    \/ SolveClick
    \/ CloseResult
    \/ CloseError

SpecGui == InitGui /\ [][NextGui]_vars

(* ============================ properties ============================== *)
\* solve_routing_problem has returned its text for the data it was given.
Returned == pc = "display"

Solved == Returned /\ result_text # Plain(NoSolutionText)

\* The core holds the data of the current request.
Solving == pc \in {"construct", "found", "none", "display"}

CustomerDemands == Tail(data.demands)

Capacity == data.vehicle_capacities[0]

Trips == result_text.trips

\* The customers of a reported route: its stops without the two depot ends.
TripCustomers(t) == [k \in 1..(Len(t.stops) - 2) |-> t.stops[k + 1].node]

TripDistances == [k \in 1..Len(Trips) |-> Trips[k].distance]

TripLoads == [k \in 1..Len(Trips) |-> Trips[k].load]

\* The places (trip, position) where customer c is reported.
Reported(c) ==
    {q \in (1..Len(Trips)) \X (1..(Len(data.distance_matrix) + 1)) :
        /\ q[2] <= Len(TripCustomers(Trips[q[1]]))
        /\ TripCustomers(Trips[q[1]])[q[2]] = c}

(* C1  Coverage: whenever the solve succeeds, every customer 1..n is in     *)
(* exactly one reported route and exactly once in it, and the routes        *)
(* report nothing but customers between their two depot ends.               *)
C1_Coverage ==
    Solved =>
        /\ \A c \in Customers(data) : Cardinality(Reported(c)) = 1
        /\ \A k \in 1..Len(Trips) :
              /\ Range(TripCustomers(Trips[k])) \subseteq Customers(data)
              /\ Trips[k].stops[1].node = 0
              /\ Trips[k].stops[Len(Trips[k].stops)].node = 0

\* Two customers are reported on one route of a successful solve.
C1_Witness ==
    /\ Solved
    /\ Len(Trips) = 1
    /\ Len(TripCustomers(Trips[1])) = 2

\* The load of the first k customers of a chain.
PrefixLoad(chain, k) == SumSeq([j \in 1..k |-> data.demands[chain[j] + 1]])

(* C2  Capacity: in every state of the construction and in every reported   *)
(* route, the load at every prefix of every vehicle's route is at most the  *)
(* vehicle's capacity.                                                      *)
C2_Capacity ==
    /\ Solving =>
          \A v \in Vehicles(data) : \A k \in 0..Len(routes[v]) :
              PrefixLoad(routes[v], k) <= data.vehicle_capacities[v]
    /\ Solved =>
          \A t \in 1..Len(Trips) : \A k \in 1..Len(Trips[t].stops) :
              \A v \in Vehicles(data) :
                  Trips[t].stops[k].load <= data.vehicle_capacities[v]

\* A reported route is filled to the capacity while a second route was
\* needed for the rest.
C2_Witness ==
    /\ Solved
    /\ Len(Trips) = 2
    /\ Trips[1].load = Capacity
    /\ Capacity > 0
    /\ SumSeq(CustomerDemands) > Capacity

(* C3  Infeasibility: when the demands add up to more than num_vehicles     *)
(* times the capacity, the solve returns exactly 'No solution found.', so   *)
(* no route is reported.                                                    *)
C3_Infeasible ==
    (Returned /\ SumSeq(CustomerDemands) > data.num_vehicles * Capacity)
        => result_text = Plain(NoSolutionText)

\* Two customers whose demands together exceed the fleet's capacity.
C3_Witness ==
    /\ Returned
    /\ data.num_vehicles = 2
    /\ SumSeq(CustomerDemands) > data.num_vehicles * Capacity
    /\ result_text = Plain(NoSolutionText)

(* C4  Totals: on a successful solve the grand total distance is the sum of *)
(* the reported routes' distances, the grand total load is the sum of their *)
(* loads, and the grand total load is the sum of the customers' demands.    *)
C4_Totals ==
    Solved =>
        /\ result_text.total_distance = SumSeq(TripDistances)
        /\ result_text.total_load = SumSeq(TripLoads)
        /\ result_text.total_load = SumSeq(CustomerDemands)

\* Two routes are reported and the totals are not zero.
C4_Witness ==
    /\ Solved
    /\ Len(Trips) = 2
    /\ result_text.total_distance > 0
    /\ result_text.total_load > Trips[1].load

(* ------------------------------ validation ---------------------------- *)
\* The typed text, read as the tuple the validator hands on.
TypedCustomers == int(fields.num_customers)

TypedEdge(i, j) == int(fields.edges[i][j])

AllTokensInt ==
    /\ IsIntToken(fields.num_customers)
    /\ IsIntToken(fields.vehicle_capacity)
    /\ \A k \in 1..Len(fields.customer_demands) :
          IsIntToken(fields.customer_demands[k])
    /\ \A i \in 1..Len(fields.edges) : \A j \in 1..Len(fields.edges[i]) :
          IsIntToken(fields.edges[i][j])

\* The invariants of the tuple, off-diagonal entries being merely non-zero.
WellShaped ==
    /\ AllTokensInt
    /\ Len(fields.customer_demands) = TypedCustomers
    /\ Len(fields.edges) = TypedCustomers + 1
    /\ \A i \in 1..Len(fields.edges) : Len(fields.edges[i]) = TypedCustomers + 1
    /\ \A i, j \in 1..Len(fields.edges) :
          /\ TypedEdge(i, j) = TypedEdge(j, i)
          /\ (i = j) => (TypedEdge(i, j) = 0)
          /\ (i # j) => (TypedEdge(i, j) # 0)

PositiveOffDiagonal ==
    \A i, j \in 1..Len(fields.edges) : (i # j) => (TypedEdge(i, j) > 0)

\* The core has been given exactly the typed tuple.
CoreGiven ==
    /\ page_dialog = "result"
    /\ Solving =>
          /\ data.num_vehicles = TypedCustomers
          /\ CustomerDemands = [k \in 1..TypedCustomers |->
                                  int(fields.customer_demands[k])]
          /\ Capacity = int(fields.vehicle_capacity)
          /\ \A i, j \in 1..(TypedCustomers + 1) :
                data.distance_matrix[i][j] = TypedEdge(i, j)

\* parse_input has raised: the error is shown and the core has no data.
Rejected ==
    /\ pc = "idle"
    /\ data = NoData
    /\ page_dialog = "error"
    /\ error_dialog.open

(* C5 as stated: the core is given the tuple exactly when the demands       *)
(* match the customer count and the matrix is (n+1) x (n+1), symmetric,     *)
(* with a zero diagonal and strictly positive off-diagonal entries; every   *)
(* other input is rejected with an error.                                   *)
C5_Original ==
    (pc # "parse") =>
        IF WellShaped /\ PositiveOffDiagonal THEN CoreGiven ELSE Rejected

(* C5  Validation, amended: the core is given the tuple exactly when the    *)
(* demands match the customer count and the matrix is (n+1) x (n+1),        *)
(* symmetric, with a zero diagonal and non-zero (possibly negative)         *)
(* off-diagonal entries; every other input is rejected with an error.       *)
C5_Validation ==
    (pc # "parse") => IF WellShaped THEN CoreGiven ELSE Rejected

\* A matrix with a negative off-diagonal entry has passed the validation.
C5_Witness ==
    /\ pc = "construct"
    /\ WellShaped
    /\ ~PositiveOffDiagonal

NonNegativeDemands == \A k \in 1..Len(CustomerDemands) : CustomerDemands[k] >= 0

EveryDemandFits == \A k \in 1..Len(CustomerDemands) : CustomerDemands[k] <= Capacity

Overloaded ==
    \/ SumSeq(CustomerDemands) > data.num_vehicles * Capacity
    \/ ~EveryDemandFits

\* A step of the construction at which no path still open can take any of
\* the remaining customers.
NoFeasiblePair ==
    /\ pc = "construct"
    /\ Unvisited(data, routes) # {}
    /\ \A v \in vehicle..(data.num_vehicles - 1) :
          \A c \in Unvisited(data, routes) :
              LET load == PrefixLoad(routes[v], Len(routes[v])) + data.demands[c + 1]
              IN  ~(0 <= load /\ load <= data.vehicle_capacities[v])

(* C8 as stated: the construction meets a step with no feasible (vehicle,  *)
(* customer) pair, or reports no solution, only when the demands exceed the *)
(* fleet's capacity or one demand exceeds a vehicle's capacity, whatever    *)
(* the sign of the demands; with non-negative demands that each fit a       *)
(* vehicle the solve succeeds and every customer is on a route.             *)
C8_Original ==
    Solving =>
        /\ (NoFeasiblePair \/ pc = "none"
              \/ (Returned /\ result_text = Plain(NoSolutionText))) => Overloaded
        /\ (Returned /\ NonNegativeDemands /\ EveryDemandFits) =>
              /\ result_text # Plain(NoSolutionText)
              /\ Visited(data, routes) = Customers(data)

(* C8  Feasibility failure: with non-negative demands, the construction     *)
(* meets a step with no feasible (vehicle, customer) pair, or reports no    *)
(* solution, only when the demands exceed the fleet's capacity or one       *)
(* demand exceeds a vehicle's capacity; when every demand fits a vehicle    *)
(* the solve succeeds and every customer is on a route.                     *)
C8_FailureOnlyWhenOverloaded ==
    (Solving /\ NonNegativeDemands) =>
        /\ (NoFeasiblePair \/ pc = "none"
              \/ (Returned /\ result_text = Plain(NoSolutionText))) => Overloaded
        /\ (Returned /\ EveryDemandFits) =>
              /\ result_text # Plain(NoSolutionText)
              /\ Visited(data, routes) = Customers(data)

\* Every demand fits, and each of two customers needed a vehicle of its own.
C8_Witness ==
    /\ Solved
    /\ NonNegativeDemands
    /\ EveryDemandFits
    /\ data.num_vehicles = 2
    /\ \A v \in Vehicles(data) : Len(routes[v]) = 1

(* ------------------------------ decoding ------------------------------ *)
NonEmptyVehicles == {v \in Vehicles(data) : routes[v] # <<>>}

\* The k-th vehicle, in increasing index, whose chain visits a customer.
NthNonEmpty(k) ==
    CHOOSE v \in NonEmptyVehicles :
        Cardinality({w \in NonEmptyVehicles : w < v}) = k - 1

C10_ResultShown ==
    [][(pc = "display" /\ pc' = "idle") =>
          /\ page_dialog' = "result"
          /\ result_open'
          /\ text_value' = result_text]_vars

====
